---------------------------- MODULE Spec2Model ----------------------------
(***************************************************************************)
(* Senado Monitor (src/app.py): the remote fetcher _get, the three query   *)
(* operations pesquisar_materias, situacao_atual and materias_atualizadas, *)
(* and the watchlist loader load_watchlist.                                *)
(*                                                                         *)
(* Python values are tagged records: None, str (a sequence of one-char     *)
(* strings), int, bool, dict (a function on its keys), list, NaN.  A       *)
(* raised exception is the tagged value Raise(name); it propagates through *)
(* every helper, as an uncaught exception does.                            *)
(***************************************************************************)
EXTENDS Integers, Sequences, FiniteSets, TLC

VARIABLES
    file,     \* content of WATCHFILE on disk
    op,       \* name of the last operation called ("init" before any call)
    args,     \* its arguments
    params,   \* the query parameters it sent (a dict), None when it sends none
    outcome,  \* what the HTTP GET of that call met, None when it made none
    result,   \* what it returned, or Raise(..) when an exception left it
    errors,   \* number of st.error notifications it emitted
    gets      \* number of HTTP GET attempts it made

vars == <<file, op, args, params, outcome, result, errors, gets>>

(***************************** bounds *************************************)
\* longest run of Materia elements in a response
MaxRecords == 2
\* longest text, in tokens, of a watchlist file somebody else wrote
MaxTokens == 3
\* most events the historico of the watchlist grows to
MaxHistory == 2

(************************* Python values **********************************)
None == [t |-> "none"]
Str(s) == [t |-> "str", s |-> s]
PyInt(n) == [t |-> "int", n |-> n]
Bool(b) == [t |-> "bool", b |-> b]
Dict(d) == [t |-> "dict", d |-> d]
List(xs) == [t |-> "list", items |-> xs]
NaN == [t |-> "nan"]
Raise(e) == [t |-> "raise", exc |-> e]
EmptyDict == Dict(<<>>)
EmptyStr == Str(<<>>)

IsRaise(v) == v.t = "raise"

\* Python truth value of an object
Truthy(v) ==
    CASE v.t = "none" -> FALSE
      [] v.t = "str"  -> v.s # <<>>
      [] v.t = "int"  -> v.n # 0
      [] v.t = "bool" -> v.b
      [] v.t = "dict" -> DOMAIN v.d # {}
      [] v.t = "list" -> v.items # <<>>
      [] OTHER        -> TRUE

\* a or b
Or(a, b) == IF IsRaise(a) THEN a ELSE IF Truthy(a) THEN a ELSE b

\* v.get(k): only a dict has the method
Get(v, k) ==
    IF IsRaise(v) THEN v
    ELSE IF v.t = "dict" THEN (IF k \in DOMAIN v.d THEN v.d[k] ELSE None)
    ELSE Raise("AttributeError")

\* the elements a for loop visits: list items, or a str's characters
Iter(v) ==
    CASE v.t = "list" -> v.items
      [] v.t = "str"  -> [i \in 1..Len(v.s) |-> Str(<<v.s[i]>>)]
      [] OTHER        -> <<>>

RECURSIVE LStrip(_)
LStrip(s) == IF s # <<>> /\ Head(s) = " " THEN LStrip(Tail(s)) ELSE s

RECURSIVE RStrip(_)
RStrip(s) ==
    IF s # <<>> /\ s[Len(s)] = " " THEN RStrip(SubSeq(s, 1, Len(s) - 1)) ELSE s

\* str.strip()
Strip(s) == RStrip(LStrip(s))

Digit(d) == <<"0", "1", "2", "3", "4", "5", "6", "7", "8", "9">>[d + 1]

RECURSIVE Digits(_)
Digits(n) == IF n < 10 THEN <<Digit(n)>> ELSE Digits(n \div 10) \o <<Digit(n % 10)>>

\* str(x); the repr of a container is kept only as its brackets
PyStr(v) ==
    CASE v.t = "str"  -> v.s
      [] v.t = "int"  -> IF v.n < 0 THEN <<"-">> \o Digits(-v.n) ELSE Digits(v.n)
      [] v.t = "bool" -> IF v.b THEN <<"T", "r", "u", "e">> ELSE <<"F", "a", "l", "s", "e">>
      [] v.t = "none" -> <<"N", "o", "n", "e">>
      [] v.t = "dict" -> <<"{", "}">>
      [] v.t = "list" -> <<"[", "]">>
      [] OTHER        -> <<"n", "a", "n">>

(***************************** _clean_text ********************************)
_clean_text(x) ==
    IF x.t = "none" THEN EmptyStr
    ELSE IF x.t \in {"int", "bool"} THEN Str(PyStr(x))
    ELSE Str(Strip(PyStr(x)))

(*************************** XML and xmltodict ****************************)
\* An XML element: its tag, its child elements in document order, its text.
Elem(tag, kids) == [tag |-> tag, kids |-> kids, text |-> <<>>]
Leaf(tag, text) == [tag |-> tag, kids |-> <<>>, text |-> text]

Tags(kids) == {kids[i].tag : i \in 1..Len(kids)}
WithTag(kids, tag) == SelectSeq(kids, LAMBDA e : e.tag = tag)

\* xmltodict's value of an element: None when it is empty, its stripped
\* text when it has only text, else a dict of its children in which a tag
\* that occurs once maps to that child's value and a repeated tag to a list.
RECURSIVE ParseElem(_)
ParseElem(e) ==
    IF e.kids = <<>>
    THEN (IF Strip(e.text) = <<>> THEN None ELSE Str(Strip(e.text)))
    ELSE Dict([k \in Tags(e.kids) \cup (IF Strip(e.text) = <<>> THEN {} ELSE {"#text"}) |->
                IF k \notin Tags(e.kids) THEN Str(Strip(e.text))
                ELSE LET same == WithTag(e.kids, k)
                     IN IF Len(same) = 1 THEN ParseElem(same[1])
                        ELSE List([i \in 1..Len(same) |-> ParseElem(same[i])])])

\* A response body: not XML at all, empty, or a document with a root element.
Malformed == [t |-> "malformed"]
EmptyBody == [t |-> "empty"]
Xml(root) == [t |-> "xml", root |-> root]

\* xmltodict.parse(r.text)
XmlParse(body) ==
    IF body.t = "xml"
    THEN Dict([k \in {body.root.tag} |-> ParseElem(body.root)])
    ELSE Raise("ExpatError")

(******************************** _get ************************************)
\* What requests.get meets: an exception of the transport, or a response.
NetError(e) == [kind |-> "exception", exc |-> e]
Response(status, body) == [kind |-> "response", status |-> status, body |-> body]

\* r.raise_for_status(): HTTPError for a 4xx or 5xx status
raise_for_status(status) ==
    IF 400 <= status /\ status < 600 THEN Raise("HTTPError") ELSE None

\* _get without r.raise_for_status(): the body of an error response is parsed
_get_unchecked(url, ps, o) ==
    LET data == IF o.kind = "exception" THEN Raise(o.exc) ELSE XmlParse(o.body)
    IN IF IsRaise(data)
       THEN [ret |-> None, errors |-> 1, gets |-> 1]
       ELSE [ret |-> data, errors |-> 0, gets |-> 1]

\* _get that answers from the last successful response instead of asking again
_get_cached(url, ps, o) ==
    LET data == IF o.kind = "exception" THEN Raise(o.exc)
                ELSE IF IsRaise(raise_for_status(o.status)) THEN raise_for_status(o.status)
                ELSE XmlParse(o.body)
    IN IF op \in {"pesquisar_materias", "situacao_atual", "materias_atualizadas"}
          /\ errors = 0
       THEN [ret |-> XmlParse(outcome.body), errors |-> 0, gets |-> 0]
       ELSE IF IsRaise(data)
       THEN [ret |-> None, errors |-> 1, gets |-> 1]
       ELSE [ret |-> data, errors |-> 0, gets |-> 1]

\* One GET; any exception becomes one st.error and the return value None.
_get(url, ps, o) ==
    LET data == IF o.kind = "exception" THEN Raise(o.exc)
                ELSE IF IsRaise(raise_for_status(o.status)) THEN raise_for_status(o.status)
                ELSE XmlParse(o.body)
    IN IF IsRaise(data)
       THEN [ret |-> None, errors |-> 1, gets |-> 1]
       ELSE [ret |-> data, errors |-> 0, gets |-> 1]

(************************** pandas.DataFrame ******************************)
Range(s) == {s[i] : i \in 1..Len(s)}

\* pd.DataFrame(rows): one table row per dict, the columns in key order;
\* pd.DataFrame() and pd.DataFrame([]) have no columns and no rows.
DataFrame(rows, keys) ==
    [t |-> "df", columns |-> IF rows = <<>> THEN <<>> ELSE keys,
     rows |-> [i \in 1..Len(rows) |-> rows[i].d]]

\* df.reindex(columns=cols): a column the table lacks is filled with NaN
Reindex(df, cols) ==
    [t |-> "df", columns |-> cols,
     rows |-> [i \in 1..Len(df.rows) |->
                [c \in Range(cols) |->
                    IF c \in Range(df.columns) THEN df.rows[i][c] ELSE NaN]]]

\* rows = []; for m in ...: rows.append({...}) -- rs holds what each pass
\* of the loop gives; the first exception leaves the loop and the function
Collect(rs) ==
    LET bad == {i \in 1..Len(rs) : IsRaise(rs[i])}
    IN IF bad = {} THEN List(rs)
       ELSE rs[CHOOSE i \in bad : \A j \in bad : i <= j]

(*************************** pesquisar_materias ***************************)
BASE == <<"https://legis.senado.leg.br/dadosabertos">>

SearchColumns ==
    <<"codigo", "sigla", "numero", "ano", "ementa", "autor", "situacao",
      "link_tramitacao">>

\* params with every filter tested by "is not None"
SearchParams_not_none(a) ==
    Dict([k \in
            (IF a.sigla.t # "none" THEN {"sigla"} ELSE {}) \cup
            (IF a.ano.t # "none" THEN {"ano"} ELSE {}) \cup
            (IF a.palavra_chave.t # "none" THEN {"palavraChave"} ELSE {}) \cup
            (IF a.codigo_situacao.t # "none" THEN {"codigoSituacao"} ELSE {}) \cup
            (IF a.tramitando.t # "none" THEN {"tramitando"} ELSE {}) \cup
            (IF a.indicador_situacao_atual.t # "none"
                THEN {"indicadorSituacaoAtual"} ELSE {})
          |->
            CASE k = "sigla" -> a.sigla
              [] k = "ano" -> PyInt(a.ano.n)
              [] k = "palavraChave" -> a.palavra_chave
              [] k = "codigoSituacao" -> a.codigo_situacao
              [] k = "tramitando" ->
                    IF Truthy(a.tramitando) THEN Str(<<"S">>) ELSE Str(<<"N">>)
              [] OTHER -> a.indicador_situacao_atual])

\* params: a key for each filter that passes its test
SearchParams(a) ==
    Dict([k \in
            (IF Truthy(a.sigla) THEN {"sigla"} ELSE {}) \cup
            (IF Truthy(a.ano) THEN {"ano"} ELSE {}) \cup
            (IF Truthy(a.palavra_chave) THEN {"palavraChave"} ELSE {}) \cup
            (IF Truthy(a.codigo_situacao) THEN {"codigoSituacao"} ELSE {}) \cup
            (IF a.tramitando.t # "none" THEN {"tramitando"} ELSE {}) \cup
            (IF Truthy(a.indicador_situacao_atual)
                THEN {"indicadorSituacaoAtual"} ELSE {})
          |->
            CASE k = "sigla" -> a.sigla
              [] k = "ano" -> PyInt(a.ano.n)
              [] k = "palavraChave" -> a.palavra_chave
              [] k = "codigoSituacao" -> a.codigo_situacao
              [] k = "tramitando" ->
                    IF Truthy(a.tramitando) THEN Str(<<"S">>) ELSE Str(<<"N">>)
              [] OTHER -> a.indicador_situacao_atual])

\* the dict appended for one record m
SearchRow(m) ==
    LET sit == Get(Or(Get(m, "SituacaoAtual"), EmptyDict), "DescricaoSituacao")
        link == Or(Or(Get(m, "LinkProcesso"), Get(m, "UrlTramitacao")), EmptyStr)
    IN IF IsRaise(Get(m, "Codigo")) THEN Get(m, "Codigo")
       ELSE IF IsRaise(sit) THEN sit
       ELSE Dict([codigo |-> _clean_text(Get(m, "Codigo")),
                  sigla |-> _clean_text(Get(m, "Sigla")),
                  numero |-> _clean_text(Get(m, "Numero")),
                  ano |-> _clean_text(Get(m, "Ano")),
                  ementa |-> _clean_text(Get(m, "Ementa")),
                  autor |-> _clean_text(Get(m, "Autor")),
                  situacao |-> _clean_text(sit),
                  link_tramitacao |-> _clean_text(link)])

\* doc to table, lines 94-121
SearchTable(doc) ==
    LET raiz == Or(Or(Get(doc, "PesquisaBasicaMateria"),
                      Get(doc, "PesquisaBasicaMateriav7")), doc)
        materias == Get(Or(Get(Or(raiz, EmptyDict), "Materias"), EmptyDict), "Materia")
        ms == Iter(IF materias.t = "dict" THEN List(<<materias>>) ELSE materias)
        rows == Collect([i \in 1..Len(ms) |-> SearchRow(ms[i])])
    IN IF IsRaise(materias) THEN materias
       ELSE IF materias.t = "none" THEN DataFrame(<<>>, <<>>)
       ELSE IF IsRaise(rows) THEN rows
       ELSE Reindex(DataFrame(rows.items, SearchColumns), SearchColumns)

\* pesquisar_materias without the "if not doc" return
pesquisar_materias_unguarded(a, o) ==
    LET ps == SearchParams(a)
        got == _get(BASE \o <<"/materia/pesquisa/lista">>, ps, o)
    IN [params |-> ps, errors |-> got.errors, gets |-> got.gets,
        ret |-> SearchTable(got.ret)]

pesquisar_materias(a, o) ==
    LET ps == SearchParams(a)
        got == _get(BASE \o <<"/materia/pesquisa/lista">>, ps, o)
    IN [params |-> ps, errors |-> got.errors, gets |-> got.gets,
        ret |-> IF ~Truthy(got.ret) THEN DataFrame(<<>>, <<>>)
                ELSE SearchTable(got.ret)]

(***************************** situacao_atual *****************************)
\* doc to status record, lines 130-138
StatusRecord(codigo, doc) ==
    LET raiz == Or(Get(doc, "SituacaoAtualMateria"), doc)
        materia == Or(Get(raiz, "Materia"), EmptyDict)
        sit == Or(Get(raiz, "SituacaoAtual"), EmptyDict)
    IN IF IsRaise(materia) THEN materia
       ELSE IF IsRaise(Get(materia, "Codigo")) THEN Get(materia, "Codigo")
       ELSE IF IsRaise(Get(sit, "DescricaoSituacao")) THEN Get(sit, "DescricaoSituacao")
       ELSE Dict([codigo |-> Or(_clean_text(Get(materia, "Codigo")), _clean_text(codigo)),
                  descricao |-> _clean_text(Get(sit, "DescricaoSituacao")),
                  data |-> _clean_text(Get(sit, "DataSituacao")),
                  orgao |-> _clean_text(Get(sit, "DescricaoOrgao"))])

situacao_atual(codigo, o) ==
    LET got == _get(BASE \o <<"/materia/situacaoatual/">> \o PyStr(codigo), None, o)
    IN [params |-> None, errors |-> got.errors, gets |-> got.gets,
        ret |-> IF ~Truthy(got.ret) THEN EmptyDict
                ELSE StatusRecord(codigo, got.ret)]

(************************** materias_atualizadas **************************)
UpdatedColumns ==
    <<"codigo", "sigla", "numero", "ano", "ultima_atualizacao", "ementa">>

UpdatedRow(m) ==
    IF IsRaise(Get(m, "Codigo")) THEN Get(m, "Codigo")
    ELSE Dict([codigo |-> _clean_text(Get(m, "Codigo")),
               sigla |-> _clean_text(Get(m, "Sigla")),
               numero |-> _clean_text(Get(m, "Numero")),
               ano |-> _clean_text(Get(m, "Ano")),
               ultima_atualizacao |->
                   _clean_text(Or(Get(m, "DataUltimaAtualizacao"),
                                  Get(m, "DataAtualizacao"))),
               ementa |-> _clean_text(Get(m, "Ementa"))])

\* doc to table, lines 150-167
UpdatedTable(doc) ==
    LET raiz == Or(Get(doc, "AtualizacoesMateria"), doc)
        itens == Get(Or(Get(raiz, "Materias"), EmptyDict), "Materia")
        ms == Iter(IF itens.t = "dict" THEN List(<<itens>>) ELSE itens)
        rows == Collect([i \in 1..Len(ms) |-> UpdatedRow(ms[i])])
    IN IF IsRaise(itens) THEN itens
       ELSE IF itens.t = "none" THEN DataFrame(<<>>, <<>>)
       ELSE IF IsRaise(rows) THEN rows
       ELSE DataFrame(rows.items, UpdatedColumns)

materias_atualizadas(o) ==
    LET got == _get(BASE \o <<"/materia/atualizadas">>, None, o)
    IN [params |-> None, errors |-> got.errors, gets |-> got.gets,
        ret |-> IF ~Truthy(got.ret) THEN DataFrame(<<>>, <<>>)
                ELSE UpdatedTable(got.ret)]


(****************************** JSON text *********************************)
\* The text of a file is its sequence of JSON tokens.
Punct(c) == [k |-> "punct", v |-> <<c>>]
StringTok(s) == [k |-> "string", v |-> s]
NumberTok(ds) == [k |-> "number", v |-> ds]
NullTok == [k |-> "null", v |-> <<>>]

DigitValue(c) == CHOOSE d \in 0..9 : Digit(d) = c

\* int("42")
RECURSIVE ToInt(_)
ToInt(ds) ==
    IF Len(ds) = 1 THEN DigitValue(ds[1])
    ELSE 10 * ToInt(SubSeq(ds, 1, Len(ds) - 1)) + DigitValue(ds[Len(ds)])

ParseOk(v, rest) == [ok |-> TRUE, val |-> v, rest |-> rest]
ParseFail == [ok |-> FALSE]

\* d with d[k] = v, as assignment to a dict key does
DictSet(d, k, v) == [x \in DOMAIN d \cup {k} |-> IF x = k THEN v ELSE d[x]]

RECURSIVE ParseValue(_), ParseMembers(_, _), ParseItems(_, _)

\* one JSON value at the head of ts
ParseValue(ts) ==
    IF ts = <<>> THEN ParseFail
    ELSE LET h == Head(ts)
         IN CASE h.k = "string" -> ParseOk(Str(h.v), Tail(ts))
              [] h.k = "number" -> ParseOk(PyInt(ToInt(h.v)), Tail(ts))
              [] h.k = "null"   -> ParseOk(None, Tail(ts))
              [] h = Punct("{") ->
                    IF Len(ts) >= 2 /\ ts[2] = Punct("}")
                    THEN ParseOk(EmptyDict, Tail(Tail(ts)))
                    ELSE ParseMembers(Tail(ts), <<>>)
              [] h = Punct("[") ->
                    IF Len(ts) >= 2 /\ ts[2] = Punct("]")
                    THEN ParseOk(List(<<>>), Tail(Tail(ts)))
                    ELSE ParseItems(Tail(ts), <<>>)
              [] OTHER -> ParseFail

\* "key": value, then "," and more members, or "}"
ParseMembers(ts, d) ==
    IF Len(ts) < 2 \/ ts[1].k # "string" \/ ts[2] # Punct(":") THEN ParseFail
    ELSE LET v == ParseValue(Tail(Tail(ts)))
         IN IF ~v.ok \/ v.rest = <<>> THEN ParseFail
            ELSE IF Head(v.rest) = Punct("}")
            THEN ParseOk(Dict(DictSet(d, ts[1].v, v.val)), Tail(v.rest))
            ELSE IF Head(v.rest) = Punct(",")
            THEN ParseMembers(Tail(v.rest), DictSet(d, ts[1].v, v.val))
            ELSE ParseFail

\* value, then "," and more items, or "]"
ParseItems(ts, xs) ==
    LET v == ParseValue(ts)
    IN IF ~v.ok \/ v.rest = <<>> THEN ParseFail
       ELSE IF Head(v.rest) = Punct("]")
       THEN ParseOk(List(Append(xs, v.val)), Tail(v.rest))
       ELSE IF Head(v.rest) = Punct(",")
       THEN ParseItems(Tail(v.rest), Append(xs, v.val))
       ELSE ParseFail

\* json.loads(text): one value and nothing after it, else JSONDecodeError
JsonLoads(ts) ==
    LET v == ParseValue(ts)
    IN IF v.ok /\ v.rest = <<>> THEN v.val ELSE Raise("JSONDecodeError")

(***************************** load_watchlist *****************************)
ITENS == <<"i", "t", "e", "n", "s">>
HISTORICO == <<"h", "i", "s", "t", "o", "r", "i", "c", "o">>

\* {"itens": {}, "historico": []}
FreshWatchlist ==
    Dict([k \in {ITENS, HISTORICO} |-> IF k = ITENS THEN EmptyDict ELSE List(<<>>)])

\* WATCHFILE on disk: no such file, a file read_text cannot read (a
\* directory, no permission, bytes that are not UTF-8), or a file with text.
Missing == [t |-> "missing"]
Unreadable == [t |-> "unreadable"]
Text(ts) == [t |-> "text", toks |-> ts]

\* WATCHFILE.read_text(encoding="utf-8")
ReadText(f) == IF f.t = "text" THEN f ELSE Raise("OSError")

\* load_watchlist with the exists() test inverted
load_watchlist_inverted(f) ==
    IF f.t = "missing"
    THEN LET text == ReadText(f)
             v == IF IsRaise(text) THEN text ELSE JsonLoads(text.toks)
         IN IF IsRaise(v) THEN FreshWatchlist ELSE v
    ELSE FreshWatchlist

load_watchlist(f) ==
    IF f.t # "missing"
    THEN LET text == ReadText(f)
             v == IF IsRaise(text) THEN text ELSE JsonLoads(text.toks)
         IN IF IsRaise(v) THEN FreshWatchlist ELSE v
    ELSE FreshWatchlist


(************************* watchlist store (save) *************************)
\* The keys of a dict in one fixed order
RECURSIVE KeySeq(_)
KeySeq(ks) ==
    IF ks = {} THEN <<>>
    ELSE LET k == CHOOSE x \in ks : TRUE IN <<k>> \o KeySeq(ks \ {k})

RECURSIVE Dumps(_), DumpMembers(_, _), DumpItems(_)

\* json.dumps(v) as tokens
Dumps(v) ==
    CASE v.t = "str"  -> <<StringTok(v.s)>>
      [] v.t = "int"  -> <<NumberTok(PyStr(v))>>
      [] v.t = "none" -> <<NullTok>>
      [] v.t = "dict" -> <<Punct("{")>> \o DumpMembers(v.d, KeySeq(DOMAIN v.d)) \o <<Punct("}")>>
      [] v.t = "list" -> <<Punct("[")>> \o DumpItems(v.items) \o <<Punct("]")>>

DumpMembers(d, ks) ==
    IF ks = <<>> THEN <<>>
    ELSE <<StringTok(Head(ks)), Punct(":")>> \o Dumps(d[Head(ks)])
         \o (IF Len(ks) = 1 THEN <<>> ELSE <<Punct(",")>> \o DumpMembers(d, Tail(ks)))

DumpItems(xs) ==
    IF xs = <<>> THEN <<>>
    ELSE Dumps(Head(xs))
         \o (IF Len(xs) = 1 THEN <<>> ELSE <<Punct(",")>> \o DumpItems(Tail(xs)))

\* WATCHFILE.write_text(json.dumps(wl)): the file after the save
save_watchlist(wl) == Text(Dumps(wl))


\* wl["itens"][codigo] = meta; wl["historico"].append(event); save
Event(acao, codigo) ==
    Dict([k \in {<<"a", "c", "a", "o">>, <<"c", "o", "d", "i", "g", "o">>} |->
            IF k = <<"a", "c", "a", "o">> THEN Str(acao) ELSE Str(codigo)])

HasShape(wl) ==
    /\ wl.t = "dict"
    /\ {ITENS, HISTORICO} \subseteq DOMAIN wl.d
    /\ wl.d[ITENS].t = "dict"
    /\ wl.d[HISTORICO].t = "list"

Changed(wl, itens, event) ==
    Dict([k \in DOMAIN wl.d |->
            IF k = ITENS THEN Dict(itens)
            ELSE IF k = HISTORICO THEN List(Append(wl.d[HISTORICO].items, event))
            ELSE wl.d[k]])

add_item(f, codigo, meta) ==
    LET wl == load_watchlist(f)
        new == Changed(wl, DictSet(wl.d[ITENS].d, codigo, Str(meta)),
                       Event(<<"a", "d", "d">>, codigo))
    IN IF ~HasShape(wl) THEN [ret |-> Raise("TypeError"), file |-> f]
       ELSE [ret |-> new, file |-> save_watchlist(new)]

remove_item(f, codigo) ==
    LET wl == load_watchlist(f)
        new == Changed(wl, [k \in DOMAIN wl.d[ITENS].d \ {codigo} |-> wl.d[ITENS].d[k]],
                       Event(<<"d", "e", "l">>, codigo))
    IN IF ~HasShape(wl) THEN [ret |-> Raise("TypeError"), file |-> f]
       ELSE [ret |-> new, file |-> save_watchlist(new)]

(******************************** inputs **********************************)
\* all sequences over S of length lo..hi
SeqsOf(S, lo, hi) == UNION {[1..n -> S] : n \in lo..hi}

RecFull ==
    Elem("Materia",
         <<Leaf("Codigo", <<"7">>), Leaf("Sigla", <<"P", "L">>),
           Leaf("Numero", <<"1">>), Leaf("Ano", <<"2", "0", "2", "5">>),
           Leaf("Ementa", <<" ", "e", " ">>), Leaf("Autor", <<"a">>),
           Elem("SituacaoAtual", <<Leaf("DescricaoSituacao", <<"o", "k">>)>>),
           Leaf("LinkProcesso", <<"l">>), Leaf("UrlTramitacao", <<"u">>),
           Leaf("DataUltimaAtualizacao", <<"d">>)>>)

\* no Sigla .. Autor, no SituacaoAtual, no LinkProcesso
RecSparse ==
    Elem("Materia",
         <<Leaf("Codigo", <<"8">>), Leaf("UrlTramitacao", <<"u">>),
           Leaf("DataAtualizacao", <<"t">>)>>)

\* the fields are there and empty
RecHollow ==
    Elem("Materia",
         <<Leaf("Codigo", <<>>), Leaf("Ementa", <<" ">>),
           Elem("SituacaoAtual", <<>>), Leaf("LinkProcesso", <<>>)>>)

\* <Materia/>
RecEmpty == Elem("Materia", <<>>)

Records == {RecFull, RecSparse, RecHollow, RecEmpty}

\* the documents a listing endpoint may answer with, under root tag r
ListingDocs(r) ==
    {Elem(r, <<>>), Leaf(r, <<"x">>), Elem(r, <<Leaf("Metadados", <<"v">>)>>),
     Elem(r, <<Elem("Materias", <<>>)>>)}
    \cup {Elem(r, <<Elem("Materias", run)>>) : run \in SeqsOf(Records, 1, MaxRecords)}

MateriaParts ==
    {<<>>, <<Elem("Materia", <<>>)>>,
     <<Elem("Materia", <<Leaf("Codigo", <<"7">>)>>)>>,
     <<Elem("Materia", <<Leaf("Sigla", <<"P", "L">>)>>)>>}

SituacaoParts ==
    {<<>>, <<Elem("SituacaoAtual", <<>>)>>,
     <<Elem("SituacaoAtual", <<Leaf("DescricaoSituacao", <<"o", "k">>)>>)>>,
     <<Elem("SituacaoAtual",
            <<Leaf("DescricaoSituacao", <<"o", "k">>), Leaf("DataSituacao", <<"d">>),
              Leaf("DescricaoOrgao", <<"g">>)>>)>>,
     <<Leaf("SituacaoAtual", <<"o", "k">>)>>}

\* the documents the status endpoint may answer with, under root tag r
StatusDocs(r) ==
    {Leaf(r, <<"x">>)} \cup {Elem(r, m \o s) : m \in MateriaParts, s \in SituacaoParts}

StatusCodes == {200, 300, 404, 503}

Outcomes(docs) ==
    {NetError("ConnectionError"), NetError("Timeout")}
    \cup {Response(st, b) : st \in StatusCodes,
                            b \in {Malformed, EmptyBody} \cup {Xml(d) : d \in docs}}

SearchOutcomes ==
    Outcomes(ListingDocs("PesquisaBasicaMateria") \cup ListingDocs("PesquisaBasicaMateriav7"))
StatusOutcomes == Outcomes(StatusDocs("SituacaoAtualMateria") \cup StatusDocs("Outro"))
UpdatedOutcomes == Outcomes(ListingDocs("AtualizacoesMateria") \cup ListingDocs("Outro"))

SearchArgs ==
    [sigla : {None, EmptyStr, Str(<<"P", "L">>)},
     ano : {None, PyInt(0), PyInt(2025)},
     palavra_chave : {None, Str(<<"x">>)},
     codigo_situacao : {None, Str(<<"9">>)},
     tramitando : {None, Bool(TRUE), Bool(FALSE)},
     indicador_situacao_atual : {None, EmptyStr, Str(<<"X">>)}]

Codigos == {Str(<<"7">>), Str(<<" ", "9", " ">>), PyInt(7)}

(******************************** actions *********************************)
Called(name, a, o, r) ==
    /\ op' = name
    /\ args' = a
    /\ outcome' = o
    /\ params' = r.params
    /\ result' = r.ret
    /\ errors' = r.errors
    /\ gets' = r.gets

\* one call of each operation, its inputs drawn from the given sets
Search(A, O) ==
    \E a \in A, o \in O :
        /\ Called("pesquisar_materias", a, o, pesquisar_materias(a, o))
        /\ UNCHANGED file

Status(C, O) ==
    \E c \in C, o \in O :
        /\ Called("situacao_atual", c, o, situacao_atual(c, o))
        /\ UNCHANGED file

Updated(O) ==
    \E o \in O :
        /\ Called("materias_atualizadas", None, o, materias_atualizadas(o))
        /\ UNCHANGED file

\* a load that writes the fresh structure back when it fell back to it
Load_repairing ==
    /\ Called("load_watchlist", None, None,
              [params |-> None, ret |-> load_watchlist(file), errors |-> 0, gets |-> 0])
    /\ file' = IF file.t = "text" /\ ~IsRaise(JsonLoads(file.toks)) THEN file
               ELSE save_watchlist(FreshWatchlist)

Load ==
    /\ Called("load_watchlist", None, None,
              [params |-> None, ret |-> load_watchlist(file), errors |-> 0, gets |-> 0])
    /\ UNCHANGED file

Idle ==
    /\ op = "init" /\ args = None /\ params = None /\ outcome = None
    /\ result = None /\ errors = 0 /\ gets = 0

\* a watchlist some earlier session saved
SavedWatchlist == add_item(Missing, <<"7">>, <<"m">>).file

CorruptFile == Text(<<Punct("{")>>)

(*********** Spec: one call per run of the script, every input ************)
PesquisarMaterias == op = "init" /\ Search(SearchArgs, SearchOutcomes)

SituacaoAtual == op = "init" /\ Status(Codigos, StatusOutcomes)

MateriasAtualizadas == op = "init" /\ Updated(UpdatedOutcomes)

LoadWatchlist == op = "init" /\ Load

\* the script runs again from the top: nothing of the last call is kept
Rerun ==
    /\ op # "init"
    /\ op' = "init" /\ args' = None /\ params' = None /\ outcome' = None
    /\ result' = None /\ errors' = 0 /\ gets' = 0
    /\ UNCHANGED file

Init == Idle /\ file \in {Missing, SavedWatchlist}

Next ==
    \/ PesquisarMaterias
    \/ SituacaoAtual
    \/ MateriasAtualizadas
    \/ LoadWatchlist
    \/ Rerun

Spec == Init /\ [][Next]_vars


(******************************** claims **********************************)
QueryOps == {"pesquisar_materias", "situacao_atual", "materias_atualizadas"}
ListingOps == {"pesquisar_materias", "materias_atualizadas"}

\* what the fetcher gave the last query operation
Fetched == _get(BASE, params, outcome)

EmptyTable == DataFrame(<<>>, <<>>)

\* the response is a 2xx one whose body is an XML document
SuccessWithXml ==
    /\ outcome.kind = "response"
    /\ 200 <= outcome.status /\ outcome.status < 300
    /\ outcome.body.t = "xml"

\* the response has no 4xx or 5xx status and its body is an XML document
NoErrorStatusWithXml ==
    /\ outcome.kind = "response"
    /\ ~(400 <= outcome.status /\ outcome.status < 600)
    /\ outcome.body.t = "xml"

C2_AbsentGivesEmpty ==
    (op \in QueryOps /\ Fetched.ret = None) =>
        /\ result = (IF op = "situacao_atual" THEN EmptyDict ELSE EmptyTable)
        /\ errors = 1

\* C2 witness: a search that met a timeout returned the empty table.
C2_Witness ==
    /\ op = "pesquisar_materias"
    /\ outcome = NetError("Timeout")
    /\ result = EmptyTable /\ errors = 1

\* the Materia elements of the response, in document order
SourceRecords ==
    IF outcome.kind = "response" /\ outcome.body.t = "xml"
    THEN LET ms == WithTag(outcome.body.root.kids, "Materias")
         IN IF ms = <<>> THEN <<>> ELSE WithTag(ms[1].kids, "Materia")
    ELSE <<>>

\* C3 as stated: whenever the parsed response holds records, the search
\* returns without an exception and every row has the eight columns, each a
\* string.
C3_AsStated ==
    (op = "pesquisar_materias" /\ errors = 0 /\ SourceRecords # <<>>) =>
        /\ ~IsRaise(result)
        /\ \A i \in 1..Len(result.rows) :
              /\ DOMAIN result.rows[i] = Range(SearchColumns)
              /\ \A c \in Range(SearchColumns) : result.rows[i][c].t = "str"

\* the text of field tag of record e, stripped; empty when e has no such field
FieldText(e, tag) ==
    LET fs == WithTag(e.kids, tag)
    IN IF fs = <<>> THEN <<>> ELSE Strip(fs[1].text)

\* C4 as stated: a listing returns without an exception a table with one row
\* per Materia element of the response, in document order.
C4_AsStated ==
    (op \in ListingOps /\ errors = 0) =>
        /\ ~IsRaise(result)
        /\ Len(result.rows) = Len(SourceRecords)
        /\ \A i \in 1..Len(result.rows) :
              result.rows[i]["codigo"] = Str(FieldText(SourceRecords[i], "Codigo"))

\* the response is a document whose root holds neither Materia nor
\* SituacaoAtual, and no text
NoStatusRecord ==
    /\ outcome.kind = "response" /\ outcome.body.t = "xml"
    /\ outcome.body.root.text = <<>>
    /\ WithTag(outcome.body.root.kids, "Materia") = <<>>
    /\ WithTag(outcome.body.root.kids, "SituacaoAtual") = <<>>

\* C5 as stated: the status lookup returns {} whenever no status record is
\* available, also when the fetch succeeds with a document that holds no
\* Materia and no SituacaoAtual.
C5_AsStated ==
    (op = "situacao_atual" /\ (errors = 1 \/ NoStatusRecord)) => result = EmptyDict


\* filter name and the request key it is sent under
FilterKeys ==
    [sigla |-> "sigla", ano |-> "ano", palavra_chave |-> "palavraChave",
     codigo_situacao |-> "codigoSituacao", tramitando |-> "tramitando",
     indicador_situacao_atual |-> "indicadorSituacaoAtual"]

SOrN == {Str(<<"S">>), Str(<<"N">>)}

\* C8 as stated: the request holds a filter's key if and only if the filter
\* is not None, and both flags travel only as "S" or "N".
C8_AsStated ==
    op = "pesquisar_materias" =>
        /\ \A f \in DOMAIN FilterKeys :
              FilterKeys[f] \in DOMAIN params.d <=> args[f] # None
        /\ \A k \in {"tramitando", "indicadorSituacaoAtual"} \cap DOMAIN params.d :
              params.d[k] \in SOrN

\* C8 amended: the request holds the key of sigla, ano, palavra_chave,
\* codigo_situacao and indicador_situacao_atual if and only if that filter is
\* truthy (not None, not "" and not 0), and the key of tramitando if and only
\* if it is not None; tramitando travels as "S" when true and "N" when false,
\* ano as int(ano), and the other filters, indicador_situacao_atual among
\* them, as the value the caller gave.
C8_Params ==
    op = "pesquisar_materias" =>
        /\ \A f \in DOMAIN FilterKeys \ {"tramitando"} :
              /\ FilterKeys[f] \in DOMAIN params.d <=> Truthy(args[f])
              /\ Truthy(args[f]) => params.d[FilterKeys[f]] = args[f]
        /\ "tramitando" \in DOMAIN params.d <=> args.tramitando # None
        /\ args.tramitando = Bool(TRUE) => params.d["tramitando"] = Str(<<"S">>)
        /\ args.tramitando = Bool(FALSE) => params.d["tramitando"] = Str(<<"N">>)

\* C8 witness: a search with sigla "" and tramitando False sent no sigla and
\* tramitando=N, and passed indicador_situacao_atual "X" through.
C8_Witness ==
    /\ op = "pesquisar_materias"
    /\ args.sigla = EmptyStr /\ "sigla" \notin DOMAIN params.d
    /\ args.tramitando = Bool(FALSE) /\ params.d["tramitando"] = Str(<<"N">>)
    /\ args.indicador_situacao_atual = Str(<<"X">>)
    /\ params.d["indicadorSituacaoAtual"] = Str(<<"X">>)


(******* SpecSeq: calls in any order within one run, a few inputs *********)
FewSearchArgs ==
    {a \in SearchArgs :
        \/ \A f \in DOMAIN a : a[f] = None
        \/ /\ a.sigla = Str(<<"P", "L">>) /\ a.ano = PyInt(2025)
           /\ a.palavra_chave = None /\ a.codigo_situacao = None
           /\ a.tramitando # None /\ a.indicador_situacao_atual = None}

FewOutcomes(docs) ==
    {NetError("Timeout"), Response(404, Malformed), Response(200, EmptyBody)}
    \cup {Response(200, Xml(d)) : d \in docs}

FewListingDocs(r) ==
    {Elem(r, <<>>), Elem(r, <<Elem("Materias", <<RecFull>>)>>),
     Elem(r, <<Elem("Materias", <<RecSparse, RecFull>>)>>)}

FewStatusDocs ==
    {Elem("SituacaoAtualMateria", <<>>)}
    \cup {Elem("SituacaoAtualMateria", m \o s) :
            m \in {<<Elem("Materia", <<Leaf("Codigo", <<"7">>)>>)>>},
            s \in {<<>>, <<Elem("SituacaoAtual",
                               <<Leaf("DescricaoSituacao", <<"o", "k">>)>>)>>}}

SeqPesquisarMaterias ==
    Search(FewSearchArgs, FewOutcomes(FewListingDocs("PesquisaBasicaMateria")))

SeqSituacaoAtual == Status(Codigos, FewOutcomes(FewStatusDocs))

SeqMateriasAtualizadas == Updated(FewOutcomes(FewListingDocs("AtualizacoesMateria")))

NextSeq ==
    \/ SeqPesquisarMaterias
    \/ SeqSituacaoAtual
    \/ SeqMateriasAtualizadas
    \/ Load

InitSeq == Idle /\ file \in {Missing, Unreadable, CorruptFile, SavedWatchlist}

SpecSeq == InitSeq /\ [][NextSeq]_vars

(****** SpecStore: the watchlist file under load, add and remove **********)
Tokens ==
    {Punct("{"), Punct("}"), Punct("["), Punct("]"), Punct(":"), Punct(","),
     StringTok(ITENS), NumberTok(<<"4", "2">>), NullTok}

\* well-formed JSON that is a record of the wrong shape
OddRecords ==
    {Dict([k \in {ITENS} |-> EmptyDict]),
     Dict([k \in {ITENS, HISTORICO} |-> IF k = ITENS THEN List(<<>>) ELSE EmptyDict]),
     Dict([k \in {ITENS, HISTORICO} |-> None])}

AllFiles ==
    {Missing, Unreadable}
    \cup {Text(ts) : ts \in SeqsOf(Tokens, 0, MaxTokens)}
    \cup {save_watchlist(v) : v \in OddRecords}

ItemCodes == {<<"7">>, <<"8">>}

HistoryLen(f) ==
    LET wl == load_watchlist(f)
    IN IF HasShape(wl) THEN Len(wl.d[HISTORICO].items) ELSE 0

Stored(name, a, r) ==
    /\ op' = name
    /\ args' = a
    /\ outcome' = None
    /\ params' = None
    /\ result' = r.ret
    /\ errors' = 0
    /\ gets' = 0
    /\ file' = r.file

AddItem ==
    /\ op = "init"
    /\ HistoryLen(file) < MaxHistory
    /\ \E c \in ItemCodes : Stored("add_item", Str(c), add_item(file, c, <<"m">>))

RemoveItem ==
    /\ op = "init"
    /\ HistoryLen(file) < MaxHistory
    /\ \E c \in ItemCodes : Stored("remove_item", Str(c), remove_item(file, c))

InitStore == Idle /\ file \in AllFiles

NextStore ==
    \/ LoadWatchlist
    \/ AddItem
    \/ RemoveItem
    \/ Rerun

SpecStore == InitStore /\ [][NextStore]_vars

\* the file holds nothing load_watchlist can take as a watchlist
InvalidContent(f) ==
    \/ f.t # "text"
    \/ IsRaise(JsonLoads(f.toks))
    \/ ~HasShape(JsonLoads(f.toks))

\* C6 as stated: load_watchlist never raises and returns a record with an
\* itens mapping and a historico sequence; for a missing file and for a file
\* of invalid content the result is {itens: {}, historico: []}.
C6_AsStated ==
    op = "load_watchlist" =>
        /\ ~IsRaise(result)
        /\ HasShape(result)
        /\ InvalidContent(file) => result = FreshWatchlist

C10_FileUntouched ==
    [][/\ file' = file
       /\ (op = "load_watchlist" /\ op' = "load_watchlist") => result' = result]_vars

\* C10 witness: load_watchlist fell back to the fresh structure on a corrupt
\* file, and the file is still the corrupt one.
C10_Witness ==
    /\ op = "load_watchlist"
    /\ file = CorruptFile
    /\ result = FreshWatchlist


=============================================================================
